---- MODULE Spec2Model ----
(***************************************************************************)
(* Search ranking engine of good-chat: searchChats, searchMessages,        *)
(* semanticSearch (lib/search/search-service.ts) and the /api/search       *)
(* request handler (app/api/search/route.ts), over a relational store of   *)
(* chat threads and messages.                                              *)
(*                                                                         *)
(* Strings are sequences of one-character strings.  A nullable column is   *)
(* either such a sequence or the value NULL.  Timestamps are small         *)
(* naturals.                                                               *)
(***************************************************************************)
EXTENDS Integers, Sequences, FiniteSets, TLC

(* ---------------------------------------------------------------------- *)
(* Bounds of the model                                                    *)
(* ---------------------------------------------------------------------- *)
MaxChats == 2
MaxMsgs == 2
MaxLimit == 3
MaxOffset == 1

(* ---------------------------------------------------------------------- *)
(* Strings                                                                *)
(* ---------------------------------------------------------------------- *)
NULL == <<"NULL">>
Undefined == <<"undefined">>
NoTime == 0 - 1

Rep(c, n) == [i \in 1..n |-> c]

\* String.prototype.toLowerCase / SQL LOWER on the model's alphabet
LowerChar(c) ==
  IF c = "A" THEN "a" ELSE IF c = "B" THEN "b" ELSE IF c = "X" THEN "x" ELSE c

ToLowerCase(s) == [i \in 1..Len(s) |-> LowerChar(s[i])]

IsSpace(c) == c = " "

RECURSIVE TrimLeft(_)
TrimLeft(s) ==
  IF s = <<>> THEN <<>>
  ELSE IF IsSpace(s[1]) THEN TrimLeft(SubSeq(s, 2, Len(s))) ELSE s

RECURSIVE TrimRight(_)
TrimRight(s) ==
  IF s = <<>> THEN <<>>
  ELSE IF IsSpace(s[Len(s)]) THEN TrimRight(SubSeq(s, 1, Len(s) - 1)) ELSE s

\* String.prototype.trim
Trim(s) == TrimRight(TrimLeft(s))

\* const searchTerms = query.trim().toLowerCase();
SearchTerms(query) == ToLowerCase(Trim(query))

StartsWith(s, q) == Len(q) <= Len(s) /\ SubSeq(s, 1, Len(q)) = q

EndsWith(s, q) == Len(q) <= Len(s) /\ SubSeq(s, Len(s) - Len(q) + 1, Len(s)) = q

Contains(s, q) == \E i \in 0..(Len(s) - Len(q)) : SubSeq(s, i + 1, i + Len(q)) = q

\* SQL LIKE: "%" matches any run of characters, "_" any one character.
\* The pattern is cut at its "%" signs into segments; the first segment is
\* anchored at the start, the last at the end, and each segment in between
\* is placed at the leftmost position after the one before it.
SegAt(seg, s, off) ==
  /\ off >= 0 /\ off + Len(seg) <= Len(s)
  /\ \A k \in 1..Len(seg) : seg[k] = "_" \/ seg[k] = s[off + k]

PercentAt(p) == { i \in 1..Len(p) : p[i] = "%" }

\* the end of the leftmost placement of seg in s[from+1 .. upto], or -1
PlaceLeftmost(seg, s, from, upto) ==
  LET fits == { i \in from..(upto - Len(seg)) : SegAt(seg, s, i) }
  IN IF fits = {} THEN 0 - 1
     ELSE (CHOOSE i \in fits : \A k \in fits : i <= k) + Len(seg)

RECURSIVE PlaceMiddle(_, _, _, _, _)
PlaceMiddle(p, s, cuts, from, upto) ==
  \* cuts: the "%" positions still ahead, p's segment between the two
  \* smallest of them is placed next
  IF Cardinality(cuts) < 2 THEN from <= upto
  ELSE LET a == CHOOSE i \in cuts : \A k \in cuts : i <= k
           rest == cuts \ {a}
           b == CHOOSE i \in rest : \A k \in rest : i <= k
           end == PlaceLeftmost(SubSeq(p, a + 1, b - 1), s, from, upto)
       IN end >= 0 /\ PlaceMiddle(p, s, rest, end, upto)

LikeMatch(p, s) ==
  LET cuts == PercentAt(p)
  IN IF cuts = {} THEN Len(p) = Len(s) /\ SegAt(p, s, 0)
     ELSE LET first == CHOOSE i \in cuts : \A k \in cuts : i <= k
              last == CHOOSE i \in cuts : \A k \in cuts : i >= k
              head == SubSeq(p, 1, first - 1)
              tail == SubSeq(p, last + 1, Len(p))
          IN /\ Len(head) + Len(tail) <= Len(s)
             /\ SegAt(head, s, 0)
             /\ SegAt(tail, s, Len(s) - Len(tail))
             /\ PlaceMiddle(p, s, cuts, Len(head), Len(s) - Len(tail))

\* value LIKE pattern; a NULL value matches nothing
Like(value, pattern) == value # NULL /\ LikeMatch(pattern, value)

\* value ILIKE pattern
ILike(value, pattern) ==
  value # NULL /\ LikeMatch(ToLowerCase(pattern), ToLowerCase(value))

\* LOWER(column)
SqlLower(value) == IF value = NULL THEN NULL ELSE ToLowerCase(value)

\* `%${searchTerms}%`, `${searchTerms}%`, `%${searchTerms}`
PatContains(terms) == <<"%">> \o terms \o <<"%">>
PatPrefix(terms) == terms \o <<"%">>
PatSuffix(terms) == <<"%">> \o terms

(* ---------------------------------------------------------------------- *)
(* The store: rows of chatThreads and messages that can exist             *)
(* ---------------------------------------------------------------------- *)
SnippetMax == 200

Users == {"u1", "u2"}

ChatRow(id, title, userId, projectId, createdAt, updatedAt) ==
  [id |-> id, title |-> title, userId |-> userId, projectId |-> projectId,
   createdAt |-> createdAt, updatedAt |-> updatedAt]

ChatUniverse ==
  { ChatRow("c1", <<"A", "b">>, "u1", <<"p", "1">>, 1, 1),
    ChatRow("c2", <<"a", "b", "x">>, "u1", NULL, 1, 2),
    ChatRow("c3", <<"x", "a", "b">>, "u1", NULL, 2, 2),
    ChatRow("c4", <<"a", "x", "b">>, "u1", NULL, 1, 1),
    ChatRow("c5", NULL, "u1", <<"p", "1">>, 2, 2),
    ChatRow("c6", <<"a", "b">>, "u2", NULL, 1, 1) }

MessageRow(id, chatId, role, content, createdAt) ==
  [id |-> id, chatId |-> chatId, role |-> role, content |-> content,
   createdAt |-> createdAt]

MessageUniverse ==
  { MessageRow("m1", "c1", "user", <<"a", "b", "x">>, 1),
    MessageRow("m2", "c1", "assistant", <<"x", "A", "B">>, 2),
    MessageRow("m3", "c5", "user", <<"x", "a", "b", "x">>, 2),
    MessageRow("m4", "c2", "system", <<"a", "b">>, 1),
    MessageRow("m5", "c2", "assistant", <<"a", "b">> \o Rep("x", SnippetMax - 1), 2),
    MessageRow("m6", "c3", "user", Rep("x", SnippetMax - 2) \o <<"a", "b">>, 2),
    MessageRow("m7", "c6", "user", <<"a", "b">>, 1) }

\* store contents: messages reference existing chats (foreign key)
Stores ==
  { st \in [chatThreads : SUBSET ChatUniverse, messages : SUBSET MessageUniverse] :
      /\ Cardinality(st.chatThreads) <= MaxChats
      /\ Cardinality(st.messages) <= MaxMsgs
      /\ \A m \in st.messages : \E c \in st.chatThreads : c.id = m.chatId }

(* ---------------------------------------------------------------------- *)
(* Generic sequence helpers                                               *)
(* ---------------------------------------------------------------------- *)
Min(a, b) == IF a < b THEN a ELSE b

\* the whole limit instead of half of it
CeilHalf_Whole(n) == n

\* Math.ceil(limit / 2)
CeilHalf(n) == (n + 1) \div 2

\* Array.prototype.slice(from, to) for 0 <= from
Slice(seq, from, to) == SubSeq(seq, from + 1, Min(to, Len(seq)))

\* all arrangements of the rows of a set in a sequence
Arrangements(S) ==
  { f \in [1..Cardinality(S) -> S] : \A i, j \in DOMAIN f : i # j => f[i] # f[j] }

\* SQL ... LIMIT limit OFFSET offset
LimitOffset(seq, limit, offset) == Slice(seq, offset, offset + limit)

RECURSIVE InsertByScore(_, _)
InsertByScore(sorted, r) ==
  IF sorted = <<>> THEN <<r>>
  ELSE IF Head(sorted).score >= r.score
    THEN <<Head(sorted)>> \o InsertByScore(Tail(sorted), r)
    ELSE <<r>> \o sorted

RECURSIVE SortFrom(_, _, _)
SortFrom(seq, i, acc) ==
  IF i > Len(seq) THEN acc ELSE SortFrom(seq, i + 1, InsertByScore(acc, seq[i]))

\* Array.prototype.sort((a, b) => b.score - a.score): stable, score descending
SortByScore(seq) == SortFrom(seq, 1, <<>>)

\* if (filters.x) ...
Truthy(v) == v # Undefined /\ v # <<>>

(* ---------------------------------------------------------------------- *)
(* searchChats                                                            *)
(* ---------------------------------------------------------------------- *)
\* the CASE expression selected as score
ChatScore(row, terms) ==
  IF Like(SqlLower(row.title), PatContains(terms)) THEN 100
  ELSE IF Like(SqlLower(row.title), PatPrefix(terms)) THEN 80
  ELSE IF Like(SqlLower(row.title), PatSuffix(terms)) THEN 60
  ELSE 40

\* the WHERE clause without the condition on the owner
ChatWhere_AnyOwner(row, terms, filters) ==
  /\ Truthy(filters.projectId) => row.projectId = filters.projectId
  /\ filters.dateFrom # NoTime => row.createdAt >= filters.dateFrom
  /\ filters.dateTo # NoTime => row.createdAt <= filters.dateTo
  /\ ILike(row.title, PatContains(terms))

\* the WHERE clause of the chat query
ChatWhere(row, terms, filters) ==
  /\ row.userId = filters.userId
  /\ Truthy(filters.projectId) => row.projectId = filters.projectId
  /\ filters.dateFrom # NoTime => row.createdAt >= filters.dateFrom
  /\ filters.dateTo # NoTime => row.createdAt <= filters.dateTo
  /\ ILike(row.title, PatContains(terms))

\* ORDER BY score DESC only
ChatOrdered_NoTieBreak(seq) ==
  \A i \in 1..(Len(seq) - 1) : seq[i].score >= seq[i + 1].score

\* ORDER BY score DESC, updatedAt DESC
ChatOrdered(seq) ==
  \A i \in 1..(Len(seq) - 1) :
    \/ seq[i].score > seq[i + 1].score
    \/ /\ seq[i].score = seq[i + 1].score
       /\ seq[i].updatedAt >= seq[i + 1].updatedAt

\* the rows the chat query can return: rows tied on both sort keys come in any order
ChatQuery(chats, terms, filters, limit, offset) ==
  LET matched == { [id |-> c.id, title |-> c.title, createdAt |-> c.createdAt,
                    updatedAt |-> c.updatedAt, projectId |-> c.projectId,
                    score |-> ChatScore(c, terms)] :
                   c \in { r \in chats : ChatWhere(r, terms, filters) } }
  IN { LimitOffset(seq, limit, offset) :
       seq \in { a \in Arrangements(matched) : ChatOrdered(a) } }

\* title || "Untitled Chat"
UntitledChat == <<"U", "n", "t", "i", "t", "l", "e", "d", " ", "C", "h", "a", "t">>

OrElse(v, dflt) == IF v = NULL \/ v = <<>> THEN dflt ELSE v

\* the row's title passed on as it is
ChatResult_RawTitle(chat) ==
  [id |-> chat.id, type |-> "chat",
   title |-> chat.title,
   content |-> OrElse(chat.title, <<>>),
   url |-> <<"/chat/", chat.id>>,
   score |-> chat.score,
   createdAt |-> chat.createdAt,
   updatedAt |-> chat.updatedAt,
   metadata |-> [chatId |-> Undefined, chatTitle |-> Undefined,
                 messageRole |-> Undefined,
                 projectId |-> OrElse(chat.projectId, Undefined)]]

\* fullTextResults.map(...)
ChatResult(chat) ==
  [id |-> chat.id, type |-> "chat",
   title |-> OrElse(chat.title, UntitledChat),
   content |-> OrElse(chat.title, <<>>),
   url |-> <<"/chat/", chat.id>>,
   score |-> chat.score,
   createdAt |-> chat.createdAt,
   updatedAt |-> chat.updatedAt,
   metadata |-> [chatId |-> Undefined, chatTitle |-> Undefined,
                 messageRole |-> Undefined,
                 projectId |-> OrElse(chat.projectId, Undefined)]]

ChatResults(rows) == [i \in 1..Len(rows) |-> ChatResult(rows[i])]

(* ---------------------------------------------------------------------- *)
(* fuzzySearch (lib/fuzzy-search): edit-distance ranking above a floor     *)
(* ---------------------------------------------------------------------- *)
SimilarityFloor == 40

Min3(a, b, c) == Min(a, Min(b, c))

RECURSIVE Levenshtein(_, _, _, _)
Levenshtein(a, b, i, j) ==
  IF i = 0 THEN j
  ELSE IF j = 0 THEN i
  ELSE Min3(Levenshtein(a, b, i - 1, j) + 1,
            Levenshtein(a, b, i, j - 1) + 1,
            Levenshtein(a, b, i - 1, j - 1) + (IF a[i] = b[j] THEN 0 ELSE 1))

\* similarity in percent: 100 * (1 - distance / longer length)
Similarity(label, query) ==
  LET a == ToLowerCase(label)
      b == ToLowerCase(query)
      m == IF Len(a) > Len(b) THEN Len(a) ELSE Len(b)
  IN IF m = 0 THEN 100 ELSE ((m - Levenshtein(a, b, Len(a), Len(b))) * 100) \div m

fuzzySearch(items, query) ==
  LET scored == [i \in 1..Len(items) |->
                   [id |-> items[i].id, label |-> items[i].label,
                    score |-> Similarity(items[i].label, query)]]
      Above(it) == it.score >= SimilarityFloor
      ranked == SortByScore(SelectSeq(scored, Above))
  IN [i \in 1..Len(ranked) |-> [id |-> ranked[i].id, label |-> ranked[i].label]]

(* ---------------------------------------------------------------------- *)
(* searchChats, continued: the fuzzy pass and the final sort              *)
(* ---------------------------------------------------------------------- *)
\* originalResult.score * 0.8
Discount(score) == (score * 8) \div 10

Ids(seq) == { seq[i].id : i \in 1..Len(seq) }

\* results.find(r => r.id === id), when some result has that id: the first
Find(results, id) ==
  results[CHOOSE i \in 1..Len(results) :
            results[i].id = id /\ \A k \in 1..(i - 1) : results[k].id # id]

\* for (const fuzzyItem of additionalResults) { ... results.push(...) }
RECURSIVE PushFuzzy(_, _, _)
PushFuzzy(results, additional, i) ==
  IF i > Len(additional) THEN results
  ELSE IF additional[i].id \in Ids(results)
    THEN LET originalResult == Find(results, additional[i].id)
         IN PushFuzzy(Append(results,
                [originalResult EXCEPT !.score = Discount(originalResult.score)]),
              additional, i + 1)
    ELSE PushFuzzy(results, additional, i + 1)

\* the fuzzy scorer run on every search
FuzzyRuns_Always(results, limit) == TRUE

\* if (results.length < limit): the fuzzy scorer is run
FuzzyRuns(results, limit) == Len(results) < limit

\* the fuzzy pass without the filter on existingIds
FuzzyPass_NoDedup(results, query, limit) ==
  IF FuzzyRuns(results, limit)
  THEN LET fuzzySearchItems == [i \in 1..Len(results) |->
                                  [id |-> results[i].id, label |-> results[i].title]]
           fuzzyResults == fuzzySearch(fuzzySearchItems, query)
       IN PushFuzzy(results, Slice(fuzzyResults, 0, limit - Len(results)), 1)
  ELSE results

\* if (results.length < limit) { ... }
FuzzyPass(results, query, limit) ==
  IF FuzzyRuns(results, limit)
  THEN LET fuzzySearchItems == [i \in 1..Len(results) |->
                                  [id |-> results[i].id, label |-> results[i].title]]
           fuzzyResults == fuzzySearch(fuzzySearchItems, query)
           existingIds == Ids(results)
           NotExisting(item) == item.id \notin existingIds
           additionalResults ==
             Slice(SelectSeq(fuzzyResults, NotExisting), 0, limit - Len(results))
       IN PushFuzzy(results, additionalResults, 1)
  ELSE results

\* one store query, as the store sees it
StoreQuery(table, limit, offset) == [table |-> table, limit |-> limit, offset |-> offset]

\* searchChats without the early return on blank search terms
searchChats_NoBlankReturn(chats, query, filters, limit, offset) ==
  { [results |-> SortByScore(FuzzyPass(ChatResults(rows), query, limit)),
     queries |-> <<StoreQuery("chatThreads", limit, offset)>>,
     fuzzy |-> FuzzyRuns(ChatResults(rows), limit)] :
    rows \in ChatQuery(chats, SearchTerms(query), filters, limit, offset) }

\* the outcomes of searchChats(query, filters, limit, offset): the returned
\* list and the store queries issued
searchChats(chats, query, filters, limit, offset) ==
  LET searchTerms == SearchTerms(query)
  IN IF searchTerms = <<>>
     THEN { [results |-> <<>>, queries |-> <<>>, fuzzy |-> FALSE] }
     ELSE { [results |-> SortByScore(FuzzyPass(ChatResults(rows), query, limit)),
             queries |-> <<StoreQuery("chatThreads", limit, offset)>>,
             fuzzy |-> FuzzyRuns(ChatResults(rows), limit)] :
            rows \in ChatQuery(chats, searchTerms, filters, limit, offset) }

\* the CASE of the chat query raised by 10
MessageScore_PlusTen(content, terms) ==
  IF Like(SqlLower(content), PatContains(terms)) THEN 100 + 10
  ELSE IF Like(SqlLower(content), PatPrefix(terms)) THEN 80 + 10
  ELSE IF Like(SqlLower(content), PatSuffix(terms)) THEN 60 + 10
  ELSE 40 + 10

(* ---------------------------------------------------------------------- *)
(* searchMessages                                                         *)
(* ---------------------------------------------------------------------- *)
\* the nested CASE expression selected as score
MessageScore(content, terms) ==
  IF Like(SqlLower(content), PatContains(terms))
  THEN IF Like(SqlLower(content), PatPrefix(terms)) THEN 90
       ELSE IF Like(SqlLower(content), PatSuffix(terms)) THEN 70
       ELSE 50
  ELSE 30

\* the WHERE clause without the restriction on the role
MessageWhere_AnyRole(msg, chat, terms, filters) ==
  /\ chat.userId = filters.userId
  /\ Truthy(filters.projectId) => chat.projectId = filters.projectId
  /\ filters.dateFrom # NoTime => msg.createdAt >= filters.dateFrom
  /\ filters.dateTo # NoTime => msg.createdAt <= filters.dateTo
  /\ ILike(msg.content, PatContains(terms))

\* the WHERE clause of the message query, on a message joined to its chat
MessageWhere(msg, chat, terms, filters) ==
  /\ chat.userId = filters.userId
  /\ Truthy(filters.projectId) => chat.projectId = filters.projectId
  /\ filters.dateFrom # NoTime => msg.createdAt >= filters.dateFrom
  /\ filters.dateTo # NoTime => msg.createdAt <= filters.dateTo
  /\ ILike(msg.content, PatContains(terms))
  /\ (msg.role = "user" \/ msg.role = "assistant")

\* ORDER BY messages.createdAt DESC only
MessageOrdered_NoScore(seq) ==
  \A i \in 1..(Len(seq) - 1) :
    seq[i].messageCreatedAt >= seq[i + 1].messageCreatedAt

\* ORDER BY score DESC, messages.createdAt DESC
MessageOrdered(seq) ==
  \A i \in 1..(Len(seq) - 1) :
    \/ seq[i].score > seq[i + 1].score
    \/ /\ seq[i].score = seq[i + 1].score
       /\ seq[i].messageCreatedAt >= seq[i + 1].messageCreatedAt

\* messages INNER JOIN chatThreads ON messages.chatId = chatThreads.id
Joined(chats, msgs) ==
  { j \in [msg : msgs, chat : chats] : j.msg.chatId = j.chat.id }

MessageQuery(chats, msgs, terms, filters, limit, offset) ==
  LET matched == { [messageId |-> j.msg.id, messageContent |-> j.msg.content,
                    messageRole |-> j.msg.role, messageCreatedAt |-> j.msg.createdAt,
                    chatId |-> j.chat.id, chatTitle |-> j.chat.title,
                    chatCreatedAt |-> j.chat.createdAt,
                    chatUpdatedAt |-> j.chat.updatedAt,
                    projectId |-> j.chat.projectId,
                    score |-> MessageScore(j.msg.content, terms)] :
                   j \in { k \in Joined(chats, msgs) :
                           MessageWhere(k.msg, k.chat, terms, filters) } }
  IN { LimitOffset(seq, limit, offset) :
       seq \in { a \in Arrangements(matched) : MessageOrdered(a) } }

Ellipsis == <<".", ".", ".">>

\* truncation from 200 characters on (>= instead of >)
Truncate_FromMax(content) ==
  IF Len(content) >= SnippetMax
  THEN SubSeq(content, 1, SnippetMax) \o Ellipsis
  ELSE content

\* msg.messageContent.length > 200 ? substring(0, 200) + "..." : messageContent
Truncate(content) ==
  IF Len(content) > SnippetMax
  THEN SubSeq(content, 1, SnippetMax) \o Ellipsis
  ELSE content

\* `Message in "${chatTitle || "Untitled Chat"}"`
MessageTitle(chatTitle) ==
  <<"M", "e", "s", "s", "a", "g", "e", " ", "i", "n", " ", "\"">>
    \o OrElse(chatTitle, UntitledChat) \o <<"\"">>

\* messageResults.map(...)
MessageResult(msg) ==
  [id |-> msg.messageId, type |-> "message",
   title |-> MessageTitle(msg.chatTitle),
   content |-> Truncate(msg.messageContent),
   url |-> <<"/chat/", msg.chatId, "?messageId=", msg.messageId>>,
   score |-> msg.score,
   createdAt |-> msg.messageCreatedAt,
   updatedAt |-> NoTime,
   metadata |-> [chatId |-> msg.chatId,
                 chatTitle |-> OrElse(msg.chatTitle, Undefined),
                 messageRole |-> msg.messageRole,
                 projectId |-> OrElse(msg.projectId, Undefined)]]

MessageResults(rows) == [i \in 1..Len(rows) |-> MessageResult(rows[i])]

\* the message query always sent for the first page
searchMessages_FirstPage(chats, msgs, query, filters, limit, offset) ==
  LET searchTerms == SearchTerms(query)
  IN IF searchTerms = <<>>
     THEN { [results |-> <<>>, queries |-> <<>>] }
     ELSE { [results |-> MessageResults(rows),
             queries |-> <<StoreQuery("messages", limit, 0)>>] :
            rows \in MessageQuery(chats, msgs, searchTerms, filters, limit, 0) }

\* the outcomes of searchMessages(query, filters, limit, offset)
searchMessages(chats, msgs, query, filters, limit, offset) ==
  LET searchTerms == SearchTerms(query)
  IN IF searchTerms = <<>>
     THEN { [results |-> <<>>, queries |-> <<>>] }
     ELSE { [results |-> MessageResults(rows),
             queries |-> <<StoreQuery("messages", limit, offset)>>] :
            rows \in MessageQuery(chats, msgs, searchTerms, filters, limit, offset) }

(* ---------------------------------------------------------------------- *)
(* semanticSearch: the combined search of the service                     *)
(* ---------------------------------------------------------------------- *)
semanticSearch(chats, msgs, query, filters, limit, offset) ==
  { [results |-> Slice(SortByScore(c.results \o m.results), offset, offset + limit),
     queries |-> c.queries \o m.queries] :
    c \in searchChats(chats, query, filters, CeilHalf(limit), 0),
    m \in searchMessages(chats, msgs, query, filters, CeilHalf(limit), 0) }

(* ---------------------------------------------------------------------- *)
(* getSearchSuggestions                                                   *)
(* ---------------------------------------------------------------------- *)
\* eq(chatThreads.userId, userId) AND ilike(chatThreads.title, `%${query}%`)
SuggestionWhere(row, userId, query) ==
  /\ row.userId = userId
  /\ ILike(row.title, PatContains(query))

\* rows ordered oldest update first
SuggestionOrdered_OldestFirst(seq) ==
  \A i \in 1..(Len(seq) - 1) : seq[i].updatedAt <= seq[i + 1].updatedAt

\* ORDER BY updated_at DESC
SuggestionOrdered(seq) ==
  \A i \in 1..(Len(seq) - 1) : seq[i].updatedAt >= seq[i + 1].updatedAt

\* suggestions.map(s => s.title)
Titles(rows) == [i \in 1..Len(rows) |-> rows[i].title]

\* the title lists the suggestion query can return: rows with the same
\* updatedAt come in any order
SuggestionQuery(chats, userId, query, limit) ==
  LET matched == { r \in chats : SuggestionWhere(r, userId, query) }
  IN { LimitOffset(Titles(seq), limit, 0) :
       seq \in { a \in Arrangements(matched) : SuggestionOrdered(a) } }

\* the elements of seq at the positions in I, in their order in seq
Pick(seq, I) ==
  [k \in 1..Cardinality(I) |->
     seq[CHOOSE i \in I : Cardinality({ j \in I : j <= i }) = k]]

\* .filter(Boolean): null and "" are dropped
FilterBoolean(seq) ==
  Pick(seq, { i \in 1..Len(seq) : seq[i] # NULL /\ seq[i] # <<>> })

\* every title kept, repeated or not
Unique_KeepAll(seq) == seq

\* .filter((title, index, arr) => arr.indexOf(title) === index)
Unique(seq) ==
  Pick(seq, { i \in 1..Len(seq) : \A j \in 1..(i - 1) : seq[j] # seq[i] })

\* the floor applied to the empty query only
getSearchSuggestions_EmptyOnly(chats, userId, query, limit) ==
  IF query = <<>>
  THEN { [results |-> <<>>, queries |-> <<>>] }
  ELSE { [results |-> Unique(FilterBoolean(titles)),
          queries |-> <<StoreQuery("chatThreads", limit, 0)>>] :
         titles \in SuggestionQuery(chats, userId, query, limit) }

\* if (!query || query.length < 2) return []; ... the suggestions a call can
\* return, each with the store queries issued
getSearchSuggestions(chats, userId, query, limit) ==
  IF query = Undefined \/ query = <<>> \/ Len(query) < 2
  THEN { [results |-> <<>>, queries |-> <<>>] }
  ELSE { [results |-> Unique(FilterBoolean(titles)),
          queries |-> <<StoreQuery("chatThreads", limit, 0)>>] :
         titles \in SuggestionQuery(chats, userId, query, limit) }

(* ---------------------------------------------------------------------- *)
(* The /api/search/suggestions request handler                            *)
(* ---------------------------------------------------------------------- *)
SuggestLimitMax == 20

\* the fields suggestionsQuerySchema.parse(...) rejects
SuggestInvalidFields(p) ==
  { f \in {"q", "limit"} :
      \/ f = "q" /\ (p.q = Undefined \/ Len(p.q) < 1)
      \/ f = "limit" /\ (p.limit < 1 \/ p.limit > SuggestLimitMax) }

(* ---------------------------------------------------------------------- *)
(* The /api/search request handler                                        *)
(* ---------------------------------------------------------------------- *)
LimitMax == 100

SearchTypes == {"all", "chats", "messages"}

\* the schema without a lower bound on offset
InvalidFields_AnyOffset(p) ==
  { f \in {"q", "type", "limit"} :
      \/ f = "q" /\ (p.q = Undefined \/ Len(p.q) < 1)
      \/ f = "type" /\ p.type \notin SearchTypes
      \/ f = "limit" /\ (p.limit < 1 \/ p.limit > LimitMax) }

\* the fields searchQuerySchema.parse(...) rejects: q is absent or empty,
\* type is no member of the enum, limit is outside 1..100, offset is negative
InvalidFields(p) ==
  { f \in {"q", "type", "limit", "offset"} :
      \/ f = "q" /\ (p.q = Undefined \/ Len(p.q) < 1)
      \/ f = "type" /\ p.type \notin SearchTypes
      \/ f = "limit" /\ (p.limit < 1 \/ p.limit > LimitMax)
      \/ f = "offset" /\ p.offset < 0 }

\* searchQuerySchema.parse(...) succeeds
ValidParams(p) == InvalidFields(p) = {}

\* const filters: SearchFilters = {...}
RouteFilters(userId, p) ==
  [userId |-> userId, projectId |-> p.projectId,
   dateFrom |-> p.dateFrom, dateTo |-> p.dateTo]

\* the combined list cut at the request's offset
RouteSearch_FromOffset(chats, msgs, p, filters) ==
  IF p.type = "chats" THEN searchChats(chats, p.q, filters, p.limit, p.offset)
  ELSE IF p.type = "messages"
    THEN searchMessages(chats, msgs, p.q, filters, p.limit, p.offset)
  ELSE { [results |-> Slice(SortByScore(c.results \o m.results),
                            p.offset, p.offset + p.limit),
          queries |-> c.queries \o m.queries] :
         c \in searchChats(chats, p.q, filters, CeilHalf(p.limit), 0),
         m \in searchMessages(chats, msgs, p.q, filters, CeilHalf(p.limit), 0) }

\* the combined list returned whole
RouteSearch_NoCut(chats, msgs, p, filters) ==
  IF p.type = "chats" THEN searchChats(chats, p.q, filters, p.limit, p.offset)
  ELSE IF p.type = "messages"
    THEN searchMessages(chats, msgs, p.q, filters, p.limit, p.offset)
  ELSE { [results |-> SortByScore(c.results \o m.results),
          queries |-> c.queries \o m.queries] :
         c \in searchChats(chats, p.q, filters, CeilHalf(p.limit), 0),
         m \in searchMessages(chats, msgs, p.q, filters, CeilHalf(p.limit), 0) }

\* switch (validatedParams.type) {...}: result list and store queries issued
RouteSearch(chats, msgs, p, filters) ==
  IF p.type = "chats" THEN searchChats(chats, p.q, filters, p.limit, p.offset)
  ELSE IF p.type = "messages"
    THEN searchMessages(chats, msgs, p.q, filters, p.limit, p.offset)
  ELSE { [results |-> Slice(SortByScore(c.results \o m.results), 0, p.limit),
          queries |-> c.queries \o m.queries] :
         c \in searchChats(chats, p.q, filters, CeilHalf(p.limit), 0),
         m \in searchMessages(chats, msgs, p.q, filters, CeilHalf(p.limit), 0) }

\* hasMore as "some result was returned"
HasMore_NonEmpty(results, limit) == Len(results) > 0

\* hasMore: results.length === validatedParams.limit
HasMore(results, limit) == Len(results) = limit

\* NextResponse.json({results, query, type, total, hasMore})
OkResponse(results, p) ==
  [status |-> 200, results |-> results, query |-> p.q, type |-> p.type,
   total |-> Len(results), hasMore |-> HasMore(results, p.limit)]

ErrorResponse(status, error) == [status |-> status, error |-> error]

\* NextResponse.json({error, details: error.errors}, {status: 400})
ValidationError(error, fields) ==
  [status |-> 400, error |-> error, details |-> fields]

NoSession == "none"

Tables == {"chatThreads", "messages"}

\* the error a query of the table rejects with while the table is down
StoreError(table) == <<"store error", table>>

\* a failing message query goes unnoticed
Failures_ChatQueryOnly(queries, down) ==
  { StoreError(queries[i].table) :
      i \in { j \in 1..Len(queries) :
                queries[j].table \in down /\ queries[j].table = "chatThreads" } }

\* the errors raised by the queries issued, given the tables that are down
Failures(queries, down) ==
  { StoreError(queries[i].table) :
      i \in { j \in 1..Len(queries) : queries[j].table \in down } }

\* the core functions the handler invokes for a search type
RouteCore(type) ==
  IF type = "chats" THEN <<"searchChats">>
  ELSE IF type = "messages" THEN <<"searchMessages">>
  ELSE <<"searchChats", "searchMessages">>

\* the responses the handler can give, each with the core functions it
\* invoked and the store queries it issued
Handle(chats, msgs, session, p, down) ==
  IF session = NoSession
  THEN { [response |-> ErrorResponse(401, "Unauthorized"),
          core |-> <<>>, queries |-> <<>>] }
  ELSE IF ~ValidParams(p)
  THEN { [response |-> ValidationError("Invalid query parameters", InvalidFields(p)),
          core |-> <<>>, queries |-> <<>>] }
  ELSE { [response |->
            IF Failures(out.queries, down) # {}
            THEN ErrorResponse(500, "Internal server error")
            ELSE OkResponse(out.results, p),
          core |-> RouteCore(p.type), queries |-> out.queries] :
         out \in RouteSearch(chats, msgs, p, RouteFilters(session, p)) }

\* NextResponse.json({suggestions, query})
SuggestionsResponse(suggestions, p) ==
  [status |-> 200, suggestions |-> suggestions, query |-> p.q]

\* the handler with the parameters parsed before the session is looked at
HandleSuggestions_ParseFirst(chats, session, p, down) ==
  IF SuggestInvalidFields(p) # {}
  THEN { [response |->
            ValidationError("Invalid query parameters", SuggestInvalidFields(p)),
          core |-> <<>>, queries |-> <<>>] }
  ELSE IF session = NoSession
  THEN { [response |-> ErrorResponse(401, "Unauthorized"),
          core |-> <<>>, queries |-> <<>>] }
  ELSE { [response |->
            IF Failures(out.queries, down) # {}
            THEN ErrorResponse(500, "Internal server error")
            ELSE SuggestionsResponse(out.results, p),
          core |-> <<"getSearchSuggestions">>, queries |-> out.queries] :
         out \in getSearchSuggestions(chats, session, p.q, p.limit) }

\* the responses the suggestions handler can give, each with the core
\* functions it invoked and the store queries it issued
HandleSuggestions(chats, session, p, down) ==
  IF session = NoSession
  THEN { [response |-> ErrorResponse(401, "Unauthorized"),
          core |-> <<>>, queries |-> <<>>] }
  ELSE IF SuggestInvalidFields(p) # {}
  THEN { [response |->
            ValidationError("Invalid query parameters", SuggestInvalidFields(p)),
          core |-> <<>>, queries |-> <<>>] }
  ELSE { [response |->
            IF Failures(out.queries, down) # {}
            THEN ErrorResponse(500, "Internal server error")
            ELSE SuggestionsResponse(out.results, p),
          core |-> <<"getSearchSuggestions">>, queries |-> out.queries] :
         out \in getSearchSuggestions(chats, session, p.q, p.limit) }

(* ---------------------------------------------------------------------- *)
(* Inputs                                                                 *)
(* ---------------------------------------------------------------------- *)
Queries ==
  { <<>>, <<" ">>, <<"A", "b">>, <<" ", "a", "_", " ">> }

NoFilter == [projectId |-> Undefined, dateFrom |-> NoTime, dateTo |-> NoTime]

FilterSet ==
  { NoFilter,
    [projectId |-> <<"p", "1">>, dateFrom |-> NoTime, dateTo |-> NoTime],
    [projectId |-> Undefined, dateFrom |-> 2, dateTo |-> 2] }

Params(q, type, limit, offset, f) ==
  [q |-> q, type |-> type, limit |-> limit, offset |-> offset,
   projectId |-> f.projectId, dateFrom |-> f.dateFrom, dateTo |-> f.dateTo]

\* well-formed requests, and requests with one parameter missing or out of
\* range
RequestParams ==
  { Params(q, t, l, o, f) :
      q \in Queries \ {<<>>}, t \in SearchTypes, l \in 1..MaxLimit,
      o \in 0..MaxOffset, f \in FilterSet }
  \cup { Params(<<>>, "all", 1, 0, NoFilter),
         Params(Undefined, "all", 1, 0, NoFilter),
         Params(<<"a", "b">>, "bogus", 1, 0, NoFilter),
         Params(<<"a", "b">>, "all", 0, 0, NoFilter),
         Params(<<"a", "b">>, "all", LimitMax + 1, 0, NoFilter),
         Params(<<"a", "b">>, "all", 1, 0 - 1, NoFilter) }

Unfiltered(p) == p.projectId = Undefined /\ p.dateFrom = NoTime /\ p.dateTo = NoTime

\* requests as they reach the handler: the session's user and the parameters
Requests ==
  { [session |-> "u1", params |-> p] : p \in RequestParams }
  \cup { [session |-> "u2", params |-> p] : p \in { r \in RequestParams : Unfiltered(r) } }
  \cup { [session |-> NoSession, params |-> p] :
            p \in { r \in RequestParams :
                      /\ Unfiltered(r)
                      /\ (r.limit = 1 /\ r.offset = 0) \/ ~ValidParams(r) } }

\* request bodies sent by POST
PostRequests ==
  { r \in Requests : r.session \in {"u1", NoSession} /\ Unfiltered(r.params) }

\* queries of 0, 1 and 2 characters
SuggestQueries == { <<>>, <<"a">>, <<"A", "b">>, <<"b", "x">> }

\* requests to the suggestions handler, well-formed and not
SuggestRequests ==
  { [session |-> u, params |-> [q |-> q, limit |-> l]] :
      u \in {"u1", NoSession}, q \in SuggestQueries \cup {Undefined},
      l \in (1..MaxLimit) \cup {0, SuggestLimitMax + 1} }

(* ---------------------------------------------------------------------- *)
(* State                                                                  *)
(* ---------------------------------------------------------------------- *)
VARIABLES
  chatThreads,  \* rows of the chatThreads table
  messages,     \* rows of the messages table
  storeDown,    \* the tables whose queries fail
  call,         \* the last operation invoked, with its arguments
  response,     \* what it returned
  coreLog,      \* the core search functions it invoked
  storeLog,     \* the store queries it issued
  subsearch,    \* the two sub-searches of a combined search being awaited
  client,       \* the state of the SearchInterface component
  inflight      \* the requests SearchInterface has sent and not yet received

vars ==
  <<chatThreads, messages, storeDown, call, response, coreLog, storeLog,
    subsearch, client, inflight>>

NoCall == [op |-> "none"]
NoResponse == [status |-> 0]

\* no combined search is awaiting its sub-searches
NoSubsearch == [waiting |-> {}, order |-> <<>>, chats |-> <<>>, messages |-> <<>>]

\* useState(...) of SearchInterface opened without search parameters; issued
\* counts the requests sent, latest is what the last one sent was answered
NoClient ==
  [query |-> <<>>, type |-> "all", results |-> <<>>, hasMore |-> FALSE,
   offset |-> 0, isLoading |-> FALSE, issued |-> 0, latest |-> [status |-> 0]]

Init ==
  /\ \E st \in Stores : chatThreads = st.chatThreads /\ messages = st.messages
  /\ storeDown = {}
  /\ call = NoCall
  /\ response = NoResponse
  /\ coreLog = <<>>
  /\ storeLog = <<>>
  /\ subsearch = NoSubsearch
  /\ client = NoClient
  /\ inflight = {}

\* no call is being served
Idle == call = NoCall

\* export async function GET(request)
GET(session, p) ==
  /\ Idle
  /\ \E out \in Handle(chatThreads, messages, session, p, storeDown) :
       /\ response' = out.response
       /\ coreLog' = out.core
       /\ storeLog' = out.queries
  /\ call' = [op |-> "GET", session |-> session, params |-> p]
  /\ UNCHANGED <<chatThreads, messages, storeDown, subsearch, client, inflight>>

\* POST answers a rejected body with "Invalid request body"
PostResponse(r) ==
  IF r.status = 400 THEN [r EXCEPT !.error = "Invalid request body"] ELSE r

\* export async function POST(request)
POST(session, p) ==
  /\ Idle
  /\ \E out \in Handle(chatThreads, messages, session, p, storeDown) :
       /\ response' = PostResponse(out.response)
       /\ coreLog' = out.core
       /\ storeLog' = out.queries
  /\ call' = [op |-> "POST", session |-> session, params |-> p]
  /\ UNCHANGED <<chatThreads, messages, storeDown, subsearch, client, inflight>>

\* export async function GET(request) of /api/search/suggestions
SuggestionsGET(session, p) ==
  /\ Idle
  /\ \E out \in HandleSuggestions(chatThreads, session, p, storeDown) :
       /\ response' = out.response
       /\ coreLog' = out.core
       /\ storeLog' = out.queries
  /\ call' = [op |-> "SuggestionsGET", session |-> session, params |-> p]
  /\ UNCHANGED <<chatThreads, messages, storeDown, subsearch, client, inflight>>

ServiceFilters(userId) ==
  [userId |-> userId, projectId |-> Undefined, dateFrom |-> NoTime, dateTo |-> NoTime]

ServiceCall(op, query, filters, limit, offset) ==
  [op |-> op, query |-> query, filters |-> filters, limit |-> limit, offset |-> offset]

\* a store error caught and answered with an empty list
Settle_Swallow(out, down) == { [threw |-> FALSE, results |-> <<>>] }

\* how a call of a core function ends: nothing between the store query and
\* the return catches, so a failing query rejects the call with its error
Settle(out, down) ==
  IF Failures(out.queries, down) = {}
  THEN { [threw |-> FALSE, results |-> out.results] }
  ELSE { [threw |-> TRUE, error |-> e] : e \in Failures(out.queries, down) }

\* a direct call of searchChats
CallSearchChats(query, filters, limit, offset) ==
  /\ Idle
  /\ \E out \in searchChats(chatThreads, query, filters, limit, offset) :
       /\ response' \in Settle(out, storeDown)
       /\ storeLog' = out.queries
       /\ coreLog' = IF out.fuzzy /\ Failures(out.queries, storeDown) = {}
                     THEN <<"searchChats", "fuzzySearch">>
                     ELSE <<"searchChats">>
  /\ call' = ServiceCall("searchChats", query, filters, limit, offset)
  /\ UNCHANGED <<chatThreads, messages, storeDown, subsearch, client, inflight>>

\* a direct call of searchMessages
CallSearchMessages(query, filters, limit, offset) ==
  /\ Idle
  /\ \E out \in searchMessages(chatThreads, messages, query, filters, limit, offset) :
       /\ response' \in Settle(out, storeDown)
       /\ storeLog' = out.queries
  /\ coreLog' = <<"searchMessages">>
  /\ call' = ServiceCall("searchMessages", query, filters, limit, offset)
  /\ UNCHANGED <<chatThreads, messages, storeDown, subsearch, client, inflight>>

\* a direct call of semanticSearch
CallSemanticSearch(query, filters, limit, offset) ==
  /\ Idle
  /\ \E out \in semanticSearch(chatThreads, messages, query, filters, limit, offset) :
       /\ response' \in Settle(out, storeDown)
       /\ storeLog' = out.queries
  /\ coreLog' = <<"semanticSearch", "searchChats", "searchMessages">>
  /\ call' = ServiceCall("semanticSearch", query, filters, limit, offset)
  /\ UNCHANGED <<chatThreads, messages, storeDown, subsearch, client, inflight>>

\* a direct call of getSearchSuggestions
CallGetSearchSuggestions(userId, query, limit) ==
  /\ Idle
  /\ \E out \in getSearchSuggestions(chatThreads, userId, query, limit) :
       /\ response' \in Settle(out, storeDown)
       /\ storeLog' = out.queries
  /\ coreLog' = <<"getSearchSuggestions">>
  /\ call' = [op |-> "getSearchSuggestions", userId |-> userId,
              query |-> query, limit |-> limit]
  /\ UNCHANGED <<chatThreads, messages, storeDown, subsearch, client, inflight>>

\* the caller has taken the result: results live for one request only
Complete ==
  /\ ~Idle
  /\ response # NoResponse
  /\ call' = NoCall
  /\ response' = NoResponse
  /\ coreLog' = <<>>
  /\ storeLog' = <<>>
  /\ subsearch' = NoSubsearch
  /\ UNCHANGED <<chatThreads, messages, storeDown, client, inflight>>

Next ==
  \/ \E r \in Requests : GET(r.session, r.params)
  \/ \E r \in PostRequests : POST(r.session, r.params)
  \/ \E r \in SuggestRequests : SuggestionsGET(r.session, r.params)
  \/ \E q \in Queries, l \in 1..MaxLimit, o \in 0..MaxOffset :
       CallSearchChats(q, ServiceFilters("u1"), l, o)
  \/ \E q \in Queries, l \in 1..MaxLimit, o \in 0..MaxOffset :
       CallSearchMessages(q, ServiceFilters("u1"), l, o)
  \/ \E q \in Queries, l \in 1..MaxLimit, o \in 0..MaxOffset :
       CallSemanticSearch(q, ServiceFilters("u1"), l, o)
  \/ Complete

Spec == Init /\ [][Next]_vars

(* ---------------------------------------------------------------------- *)
(* Suggestions over chats with repeated titles                            *)
(* ---------------------------------------------------------------------- *)
MaxTitles == 3

\* chats of u1 with a title held twice, titles differing in case only, and
\* chats without a title or with an empty one
SuggestChatUniverse ==
  { ChatRow("s1", <<"a", "b", "x">>, "u1", NULL, 1, 3),
    ChatRow("s2", <<"A", "b">>, "u1", NULL, 1, 2),
    ChatRow("s3", <<"a", "b", "x">>, "u1", NULL, 1, 1),
    ChatRow("s4", <<"a", "b">>, "u1", NULL, 1, 2),
    ChatRow("s5", NULL, "u1", NULL, 1, 3),
    ChatRow("s6", <<>>, "u1", NULL, 1, 3),
    ChatRow("s7", <<"a", "b", "x">>, "u2", NULL, 1, 3) }

InitSuggest ==
  /\ chatThreads \in { S \in SUBSET SuggestChatUniverse : Cardinality(S) <= MaxTitles }
  /\ messages = {}
  /\ storeDown = {}
  /\ call = NoCall
  /\ response = NoResponse
  /\ coreLog = <<>>
  /\ storeLog = <<>>
  /\ subsearch = NoSubsearch
  /\ client = NoClient
  /\ inflight = {}

NextSuggest ==
  \/ \E r \in SuggestRequests : SuggestionsGET(r.session, r.params)
  \/ \E u \in Users, q \in SuggestQueries, l \in 1..MaxLimit :
       CallGetSearchSuggestions(u, q, l)
  \/ Complete

SpecSuggest == InitSuggest /\ [][NextSuggest]_vars

(* ---------------------------------------------------------------------- *)
(* searchChats over a store layer that hands back given rows              *)
(* ---------------------------------------------------------------------- *)
MaxRows == 2

\* a row as the chat query yields it, title and projectId possibly null
MockRow(id, title, projectId, updatedAt, score) ==
  [id |-> id, title |-> title, createdAt |-> 1, updatedAt |-> updatedAt,
   projectId |-> projectId, score |-> score]

\* row lists with distinct ids
MockRowLists ==
  UNION { { rows \in [1..n -> { MockRow(id, t, p, u, sc) :
                                   id \in {"chat1", "chat2", "chat3"},
                                   t \in {NULL, <<"a", "b">>},
                                   p \in {NULL, <<"p", "1">>},
                                   u \in {1, 2}, sc \in {100, 80} }] :
              \A i \in 1..n : rows[i].id = <<"chat1", "chat2", "chat3">>[i] } :
          n \in 0..MaxRows }

InitMocked ==
  /\ chatThreads = {}
  /\ messages = {}
  /\ storeDown = {}
  /\ call = NoCall
  /\ response = NoResponse
  /\ coreLog = <<>>
  /\ storeLog = <<>>
  /\ subsearch = NoSubsearch
  /\ client = NoClient
  /\ inflight = {}

\* searchChats(query, filters, limit) with mockDb.select returning rows
CallSearchChatsMocked(rows, query, limit) ==
  /\ Idle
  /\ SearchTerms(query) # <<>>
  /\ response' = [threw |-> FALSE,
                  results |-> SortByScore(FuzzyPass(ChatResults(rows), query, limit))]
  /\ storeLog' = <<StoreQuery("chatThreads", limit, 0)>>
  /\ coreLog' = IF FuzzyRuns(ChatResults(rows), limit)
                THEN <<"searchChats", "fuzzySearch">>
                ELSE <<"searchChats">>
  /\ call' = [op |-> "searchChatsMocked", rows |-> rows, query |-> query,
              limit |-> limit]
  /\ UNCHANGED <<chatThreads, messages, storeDown, subsearch, client, inflight>>

NextMocked ==
  \/ \E rows \in MockRowLists, l \in 1..MaxLimit :
       CallSearchChatsMocked(rows, <<"A", "b">>, l)
  \/ Complete

SpecMocked == InitMocked /\ [][NextMocked]_vars

(* ---------------------------------------------------------------------- *)
(* Requests served while queries of some table fail                       *)
(* ---------------------------------------------------------------------- *)
InitFail ==
  /\ \E st \in Stores :
       /\ Cardinality(st.chatThreads) <= 1 /\ Cardinality(st.messages) <= 1
       /\ chatThreads = st.chatThreads /\ messages = st.messages
  /\ storeDown \in (SUBSET Tables) \ {{}}
  /\ call = NoCall
  /\ response = NoResponse
  /\ coreLog = <<>>
  /\ storeLog = <<>>
  /\ subsearch = NoSubsearch
  /\ client = NoClient
  /\ inflight = {}

SpecFail == InitFail /\ [][Next]_vars

(* ---------------------------------------------------------------------- *)
(* KnowledgeBaseService.getUserDocuments                                  *)
(* ---------------------------------------------------------------------- *)
\* a numeric option that was not given
Absent == 0 - 1

\* January 2024 dates as the day of the month; titleKey is the rank of the
\* lower-cased title in string order
KnowledgeDocument(id, userId, title, titleKey, category, created, updated, accessed) ==
  [id |-> id, userId |-> userId, title |-> title, titleKey |-> titleKey,
   category |-> category, createdAt |-> created, updatedAt |-> updated,
   lastAccessedAt |-> accessed]

\* const mockDocuments: KnowledgeDocument[] = [...]
mockDocuments(userId) ==
  << KnowledgeDocument("1", userId, "Project Notes", 3, "work", 15, 16, 16),
     KnowledgeDocument("2", userId, "Learning Resources", 1, "education", 10, 14, 15),
     KnowledgeDocument("3", userId, "Meeting Summary", 2, "work", 12, 12, 13) >>

\* switch (sortBy) {...}: the value a document is sorted on
SortValue(doc, sortBy) ==
  IF sortBy = "created" THEN doc.createdAt
  ELSE IF sortBy = "accessed" THEN doc.lastAccessedAt
  ELSE IF sortBy = "title" THEN doc.titleKey
  ELSE doc.updatedAt

\* filteredDocuments.sort(...): no two mock documents share a sort value
SortDocuments(docs, sortBy, sortOrder) ==
  CHOOSE seq \in Arrangements({ docs[i] : i \in 1..Len(docs) }) :
    \A i \in 1..(Len(seq) - 1) :
      IF sortOrder = "asc"
      THEN SortValue(seq[i], sortBy) < SortValue(seq[i + 1], sortBy)
      ELSE SortValue(seq[i], sortBy) > SortValue(seq[i + 1], sortBy)

\* filteredDocuments.filter(doc => doc.category === category)
FilterCategory(docs, category) ==
  Pick(docs, { i \in 1..Len(docs) : docs[i].category = category })

\* what getUserDocuments returns; logThrows: console.log throws, which lands
\* in the catch block
getUserDocuments(userId, options, logThrows) ==
  IF logThrows
  THEN [documents |-> <<>>, total |-> 0, hasMore |-> FALSE]
  ELSE
    LET limit == IF options.limit = Absent THEN 20 ELSE options.limit
        offset == IF options.offset = Absent THEN 0 ELSE options.offset
        sortBy == IF options.sortBy = "" THEN "updated" ELSE options.sortBy
        sortOrder == IF options.sortOrder = "" THEN "desc" ELSE options.sortOrder
        filtered == IF options.category # ""
                    THEN FilterCategory(mockDocuments(userId), options.category)
                    ELSE mockDocuments(userId)
        sorted == SortDocuments(filtered, sortBy, sortOrder)
    IN [documents |-> Slice(sorted, offset, offset + limit),
        total |-> Len(sorted),
        hasMore |-> offset + limit < Len(sorted)]

\* the options a caller passes; "" and Absent stand for an option left out
DocumentOptions ==
  [limit : {Absent} \cup (1..MaxLimit), offset : {Absent} \cup (0..MaxOffset),
   category : {"", "work", "education"},
   sortBy : {"", "created", "updated", "accessed", "title"},
   sortOrder : {"", "asc", "desc"}]

InitKnowledgeBase ==
  /\ chatThreads = {}
  /\ messages = {}
  /\ storeDown = {}
  /\ call = NoCall
  /\ response = NoResponse
  /\ coreLog = <<>>
  /\ storeLog = <<>>
  /\ subsearch = NoSubsearch
  /\ client = NoClient
  /\ inflight = {}

\* knowledgeBaseService.getUserDocuments(userId, options)
CallGetUserDocuments(userId, options, logThrows) ==
  /\ Idle
  /\ response' = getUserDocuments(userId, options, logThrows)
  /\ coreLog' = <<"getUserDocuments">>
  /\ storeLog' = <<>>
  /\ call' = [op |-> "getUserDocuments", userId |-> userId, options |-> options,
              logThrows |-> logThrows]
  /\ UNCHANGED <<chatThreads, messages, storeDown, subsearch, client, inflight>>

NextKnowledgeBase ==
  \/ \E u \in {"", "user123"}, o \in DocumentOptions, t \in BOOLEAN :
       CallGetUserDocuments(u, o, t)
  \/ Complete

SpecKnowledgeBase == InitKnowledgeBase /\ [][NextKnowledgeBase]_vars

(* ---------------------------------------------------------------------- *)
(* The combined search, one step per settled sub-search                   *)
(* ---------------------------------------------------------------------- *)
\* the list of the sub-search that settled first, alone
Merge_FirstSettled(sub, limit) ==
  Slice(SortByScore(IF sub.order[1] = "chats" THEN sub.chats ELSE sub.messages),
        0, limit)

\* const [chatResults, messageResults] = await Promise.all([...]);
\* [...chatResults, ...messageResults].sort(...).slice(0, limit)
Merge(sub, limit) == Slice(SortByScore(sub.chats \o sub.messages), 0, limit)

\* valid combined requests of a signed-in user
CombinedRequests ==
  { r \in Requests :
      /\ r.session = "u1" /\ ValidParams(r.params)
      /\ r.params.type = "all" /\ Unfiltered(r.params) }

\* case "all": both sub-searches are called, which issues their store
\* queries; Promise.all awaits them
StartCombined(session, p) ==
  /\ Idle
  /\ session # NoSession /\ ValidParams(p) /\ p.type = "all"
  /\ call' = [op |-> "GET", session |-> session, params |-> p]
  /\ response' = NoResponse
  /\ coreLog' = RouteCore(p.type)
  /\ storeLog' = IF SearchTerms(p.q) = <<>> THEN <<>>
                 ELSE << StoreQuery("chatThreads", CeilHalf(p.limit), 0),
                         StoreQuery("messages", CeilHalf(p.limit), 0) >>
  /\ subsearch' = [NoSubsearch EXCEPT !.waiting = {"chats", "messages"}]
  /\ UNCHANGED <<chatThreads, messages, storeDown, client, inflight>>

\* the promise of searchChats(q, filters, ceil(limit / 2), 0) resolves
ChatSearchSettles ==
  /\ "chats" \in subsearch.waiting
  /\ \E out \in searchChats(chatThreads, call.params.q,
                             RouteFilters(call.session, call.params),
                             CeilHalf(call.params.limit), 0) :
       subsearch' = [subsearch EXCEPT !.waiting = @ \ {"chats"},
                                      !.order = Append(@, "chats"),
                                      !.chats = out.results]
  /\ UNCHANGED <<chatThreads, messages, storeDown, call, response, coreLog,
                 storeLog, client, inflight>>

\* the promise of searchMessages(q, filters, ceil(limit / 2), 0) resolves
MessageSearchSettles ==
  /\ "messages" \in subsearch.waiting
  /\ \E out \in searchMessages(chatThreads, messages, call.params.q,
                                RouteFilters(call.session, call.params),
                                CeilHalf(call.params.limit), 0) :
       subsearch' = [subsearch EXCEPT !.waiting = @ \ {"messages"},
                                      !.order = Append(@, "messages"),
                                      !.messages = out.results]
  /\ UNCHANGED <<chatThreads, messages, storeDown, call, response, coreLog,
                 storeLog, client, inflight>>

\* Promise.all resolves: the lists are merged and the response is sent
FinishCombined ==
  /\ ~Idle /\ response = NoResponse
  /\ subsearch.waiting = {} /\ Len(subsearch.order) = 2
  /\ response' = OkResponse(Merge(subsearch, call.params.limit), call.params)
  /\ UNCHANGED <<chatThreads, messages, storeDown, call, coreLog, storeLog,
                 subsearch, client, inflight>>

NextCombined ==
  \/ \E r \in CombinedRequests : StartCombined(r.session, r.params)
  \/ ChatSearchSettles
  \/ MessageSearchSettles
  \/ FinishCombined
  \/ Complete

SpecCombined == Init /\ [][NextCombined]_vars

(* ---------------------------------------------------------------------- *)
(* Reading a finished call                                                *)
(* ---------------------------------------------------------------------- *)
IsRoute == call.op \in {"GET", "POST"}
IsService == call.op \in {"searchChats", "searchMessages", "semanticSearch"}

\* the call returned a result list
Returned == (IsService /\ ~response.threw) \/ (IsRoute /\ response.status = 200)

CallQuery == IF IsRoute THEN call.params.q ELSE call.query
CallLimit == IF IsRoute THEN call.params.limit ELSE call.limit
CallOffset == IF IsRoute THEN call.params.offset ELSE call.offset
CallFilters ==
  IF IsRoute THEN RouteFilters(call.session, call.params) ELSE call.filters

\* which search ran: "chats", "messages" or "all"
CallType ==
  IF IsRoute THEN call.params.type
  ELSE IF call.op = "searchChats" THEN "chats"
  ELSE IF call.op = "searchMessages" THEN "messages"
  ELSE "all"

Results == response.results

Blank(q) == Trim(q) = <<>>

(* ---------------------------------------------------------------------- *)
(* C1                                                                     *)
(* ---------------------------------------------------------------------- *)
\* C1: a search of any type (searchChats, searchMessages, combined) whose
\* query is empty or whitespace-only returns an empty result list, with
\* hasMore = false where the response carries it, and issues no store query.
C1_BlankQueryNoStoreAccess ==
  (Returned /\ Blank(CallQuery)) =>
    /\ Results = <<>>
    /\ storeLog = <<>>
    /\ IsRoute => response.hasMore = FALSE

\* a combined search with a whitespace-only query was answered while the
\* caller owns a chat and a message
C1_Witness ==
  /\ IsRoute /\ response.status = 200 /\ call.params.type = "all"
  /\ Blank(call.params.q)
  /\ \E c \in chatThreads : c.userId = call.session /\ c.title # NULL
  /\ \E m \in messages : \E c \in chatThreads :
       c.id = m.chatId /\ c.userId = call.session

(* ---------------------------------------------------------------------- *)
(* C2, C3                                                                 *)
(* ---------------------------------------------------------------------- *)
\* C2: for a non-empty query and every search type, the returned list is
\* sorted by score in non-increasing order.
C2_SortedByScore ==
  (Returned /\ ~Blank(CallQuery)) =>
    \A i \in 1..(Len(Results) - 1) : Results[i].score >= Results[i + 1].score

\* a combined search returned results of both kinds with different scores
C2_Witness ==
  /\ Returned /\ ~Blank(CallQuery) /\ CallType = "all"
  /\ \E i, j \in 1..Len(Results) :
       /\ i < j
       /\ Results[i].type = "chat" /\ Results[j].type = "message"
       /\ Results[i].score > Results[j].score
  /\ \E i, j \in 1..Len(Results) :
       /\ i < j
       /\ Results[i].type = "message" /\ Results[j].type = "message"
       /\ Results[i].score > Results[j].score

\* updatedAt, or createdAt when updatedAt is absent
Recency(r) == IF r.updatedAt # NoTime THEN r.updatedAt ELSE r.createdAt

\* C3: in every returned list, two results with equal score are ordered by
\* recency, the later updatedAt (createdAt when updatedAt is absent) first.
C3_TiesByRecency ==
  Returned =>
    \A i, j \in 1..Len(Results) :
      (i < j /\ Results[i].score = Results[j].score) =>
        Recency(Results[i]) >= Recency(Results[j])

\* a combined search returned two chats of equal score and different recency
\* followed by a message
C3_Witness ==
  /\ Returned /\ CallType = "all"
  /\ \E i, j, k \in 1..Len(Results) :
       /\ i < j /\ j < k
       /\ Results[i].type = "chat" /\ Results[j].type = "chat"
       /\ Results[i].score = Results[j].score
       /\ Recency(Results[i]) > Recency(Results[j])
       /\ Results[k].type = "message"

(* ---------------------------------------------------------------------- *)
(* C4, C5                                                                 *)
(* ---------------------------------------------------------------------- *)
\* the band of a lower-cased text against the lower-cased query
Band(text, q) ==
  IF text = q THEN "equal"
  ELSE IF StartsWith(text, q) THEN "prefix"
  ELSE IF EndsWith(text, q) THEN "suffix"
  ELSE IF Contains(text, q) THEN "contains"
  ELSE "none"

\* C4: in searchChats a title equal to the query scores 100, a title that
\* starts with it (and is not equal) 80, one that only ends with it 60, and
\* one that merely contains it 40.
C4_ChatScoreBands ==
  (Returned /\ CallType = "chats" /\ ~Blank(CallQuery)) =>
    \A i \in 1..Len(Results) :
      LET band == Band(ToLowerCase(Results[i].title), SearchTerms(CallQuery))
      IN /\ band = "equal" => Results[i].score = 100
         /\ band = "prefix" => Results[i].score = 80
         /\ band = "suffix" => Results[i].score = 60
         /\ band = "contains" => Results[i].score = 40

\* the stored message a message result was made from
MessageOf(r) == CHOOSE m \in messages : m.id = r.id

\* the band of a message body: equality is not a band of its own
MessageBand(text, q) == IF text = q THEN "prefix" ELSE Band(text, q)

\* the chat results a chat search with the same query and filters can return
ChatResultsFor(query, filters) ==
  UNION { { out.results[i] : i \in 1..Len(out.results) } :
          out \in searchChats(chatThreads, query, filters,
                              Cardinality(chatThreads) + 1, 0) }

\* C5: in searchMessages a body that starts with the query scores 90, one
\* that only ends with it 70, one that merely contains it 50; each is the
\* score of a chat title in the same band plus 10, so a message result and a
\* chat result in the same band never have the same score.
C5_MessageBandsShifted ==
  (Returned /\ CallType = "messages" /\ ~Blank(CallQuery)) =>
    \A i \in 1..Len(Results) :
      LET q == SearchTerms(CallQuery)
          band == MessageBand(ToLowerCase(MessageOf(Results[i]).content), q)
      IN /\ band = "prefix" => Results[i].score = 90
         /\ band = "suffix" => Results[i].score = 70
         /\ band = "contains" => Results[i].score = 50
         /\ \A c \in ChatResultsFor(CallQuery, CallFilters) :
              (band # "none" /\ Band(ToLowerCase(c.title), q) = band) =>
                /\ Results[i].score = c.score + 10
                /\ Results[i].score # c.score

(* ---------------------------------------------------------------------- *)
(* C6                                                                     *)
(* ---------------------------------------------------------------------- *)
SeqToSet(seq) == { seq[i] : i \in 1..Len(seq) }

\* every message result a message search with this query and filters can return
MessageResultsFor(query, filters) ==
  UNION { SeqToSet(out.results) :
          out \in searchMessages(chatThreads, messages, query, filters,
                                 Cardinality(messages) + 1, 0) }

\* a combined search that starts its window at the head of the merged list
CombinedFromStart ==
  Returned /\ CallType = "all" /\ ~Blank(CallQuery) /\ (IsRoute \/ CallOffset = 0)

\* C6: a combined search with limit L returns the L highest-scoring results
\* over the union of all matching chats and all matching messages.
C6_TopAcrossKinds ==
  CombinedFromStart =>
    LET union == ChatResultsFor(CallQuery, CallFilters)
                   \cup MessageResultsFor(CallQuery, CallFilters)
    IN /\ Len(Results) = Min(CallLimit, Cardinality(union))
       /\ \A i \in 1..Len(Results) :
            /\ Results[i] \in union
            /\ \A u \in union \ SeqToSet(Results) : Results[i].score >= u.score

\* r is ranked before s by the search of their kind
RankedBefore(r, s) ==
  \/ r.score > s.score
  \/ r.score = s.score /\ Recency(r) > Recency(s)

OfType(set, type) == { r \in set : r.type = type }

\* C6, amended: a combined search with limit L returns
\* min(L, min(ceil(L/2), matching chats) + min(ceil(L/2), matching messages))
\* results, each among the ceil(L/2) best-ranked matches of its own kind.
C6_HalfFromEachKind ==
  CombinedFromStart =>
    LET half == (CallLimit + 1) \div 2
        chats == ChatResultsFor(CallQuery, CallFilters)
        msgs == MessageResultsFor(CallQuery, CallFilters)
        got == SeqToSet(Results)
    IN /\ Len(Results) = Min(CallLimit, Min(half, Cardinality(chats))
                                          + Min(half, Cardinality(msgs)))
       /\ Cardinality(got) = Len(Results)
       /\ got \subseteq chats \cup msgs
       /\ \A r \in OfType(got, "chat") :
            Cardinality({ c \in chats : RankedBefore(c, r) }) < half
       /\ \A r \in OfType(got, "message") :
            Cardinality({ m \in msgs : RankedBefore(m, r) }) < half

\* limit 2 with two matching chats and a matching message: one of each kind
\* is returned and a chat scoring above the returned message is left out
C6_Witness ==
  /\ CombinedFromStart /\ CallLimit = 2 /\ Len(Results) = 2
  /\ Results[1].type = "chat" /\ Results[2].type = "message"
  /\ \E c \in ChatResultsFor(CallQuery, CallFilters) :
       c \notin SeqToSet(Results) /\ c.score > Results[2].score

(* ---------------------------------------------------------------------- *)
(* C7                                                                     *)
(* ---------------------------------------------------------------------- *)
\* the chats of the owner that pass the collection and date filters
OwnerChats(filters) ==
  { c \in chatThreads :
      /\ c.userId = filters.userId
      /\ Truthy(filters.projectId) => c.projectId = filters.projectId
      /\ filters.dateFrom # NoTime => c.createdAt >= filters.dateFrom
      /\ filters.dateTo # NoTime => c.createdAt <= filters.dateTo }

\* C7: when the store returns fewer than limit chats, every chat of the
\* owner whose title is a fuzzy match of the query is appended, until limit
\* results are reached, so a near-miss title can appear in the result.
C7_FuzzyFillsShortResult ==
  (Returned /\ CallType = "chats" /\ ~Blank(CallQuery) /\ CallOffset = 0
     /\ Len(Results) < CallLimit) =>
    \A c \in OwnerChats(CallFilters) :
      (c.title # NULL /\ Similarity(c.title, CallQuery) >= SimilarityFloor) =>
        c.id \in Ids(Results)

(* ---------------------------------------------------------------------- *)
(* C8                                                                     *)
(* ---------------------------------------------------------------------- *)
ChatSearchReturned == Returned /\ CallType = "chats" /\ ~Blank(CallQuery)

\* the complete lists of matching chats, in any order the store can give them
FullChatLists(query, filters) ==
  { ChatResults(rows) :
    rows \in ChatQuery(chatThreads, SearchTerms(query), filters,
                       Cardinality(chatThreads) + 1, 0) }

\* C8: searchChats applies the offset/limit window to the final merged and
\* sorted list, not to the store query.
C8_WindowOnMergedList ==
  ChatSearchReturned =>
    /\ \A k \in 1..Len(storeLog) :
         /\ storeLog[k].offset = 0
         /\ storeLog[k].limit >= CallOffset + CallLimit
    /\ \E full \in FullChatLists(CallQuery, CallFilters) :
         Results = Slice(full, CallOffset, CallOffset + CallLimit)

\* C8, amended: searchChats applies the offset/limit window to the store
\* query; nothing is merged in afterwards, so the call returns elements
\* offset .. offset+limit-1 of the store's sorted list of matching chats.
C8_WindowOnStoreQuery ==
  ChatSearchReturned =>
    /\ storeLog = <<StoreQuery("chatThreads", CallLimit, CallOffset)>>
    /\ \E full \in FullChatLists(CallQuery, CallFilters) :
         Results = Slice(full, CallOffset, CallOffset + CallLimit)

\* a chat search at offset 1 that returned fewer results than its limit,
\* so that the fuzzy pass ran
C8_Witness ==
  /\ ChatSearchReturned /\ CallOffset = 1 /\ CallLimit = 2
  /\ Len(Results) = 1
  /\ storeLog[1].offset = 1

(* ---------------------------------------------------------------------- *)
(* C9, C10                                                                *)
(* ---------------------------------------------------------------------- *)
\* C9: in every search response hasMore is true iff the number of returned
\* results equals the requested limit, and total is the number of results.
C9_HasMoreIffFull ==
  (IsRoute /\ response.status = 200) =>
    /\ response.hasMore = (Len(response.results) = call.params.limit)
    /\ response.total = Len(response.results)

\* responses with hasMore true and with hasMore false on a non-empty list
C9_Witness ==
  /\ IsRoute /\ response.status = 200
  /\ response.hasMore /\ response.total = 2 /\ call.params.limit = 2

\* C10: the snippet of a message result is the first 200 characters of the
\* content followed by "..." (203 characters) when the content is longer
\* than 200 characters, and the content unchanged otherwise.
C10_SnippetTruncation ==
  Returned =>
    \A i \in 1..Len(Results) :
      Results[i].type = "message" =>
        LET content == MessageOf(Results[i]).content
        IN IF Len(content) > 200
           THEN /\ Results[i].content = SubSeq(content, 1, 200) \o <<".", ".", ".">>
                /\ Len(Results[i].content) = 203
           ELSE Results[i].content = content

\* a result list with a message of 201 characters and one of exactly 200
C10_Witness ==
  /\ Returned
  /\ \E i, j \in 1..Len(Results) :
       /\ Results[i].type = "message" /\ Results[j].type = "message"
       /\ Len(MessageOf(Results[i]).content) = 201
       /\ Len(Results[i].content) = 203
       /\ Len(MessageOf(Results[j]).content) = 200
       /\ Len(Results[j].content) = 200

(* ---------------------------------------------------------------------- *)
(* C11, C12, C13                                                          *)
(* ---------------------------------------------------------------------- *)
IsSuggestCall == call.op = "getSearchSuggestions"
IsSuggestRoute == call.op = "SuggestionsGET"

\* the call returned a list of suggestions
SuggestReturned ==
  \/ IsSuggestCall /\ ~response.threw
  \/ IsSuggestRoute /\ response.status = 200

Suggestions == IF IsSuggestRoute THEN response.suggestions ELSE response.results
SuggestQuery == IF IsSuggestRoute THEN call.params.q ELSE call.query
SuggestLimit == IF IsSuggestRoute THEN call.params.limit ELSE call.limit
SuggestUser == IF IsSuggestRoute THEN call.session ELSE call.userId

\* the caller's chats whose title contains the query, whatever the case
SuggestMatches ==
  { c \in chatThreads :
      /\ c.userId = SuggestUser /\ c.title # NULL
      /\ Contains(ToLowerCase(c.title), ToLowerCase(SuggestQuery)) }

\* C11: getSearchSuggestions returns an empty list for every query of fewer
\* than 2 characters, the empty query included, and issues no store query
\* then.
C11_ShortQueryNoSuggestions ==
  (SuggestReturned /\ Len(SuggestQuery) < 2) =>
    /\ Suggestions = <<>>
    /\ storeLog = <<>>

\* a one-character query was answered while the caller has a chat whose
\* title contains it
C11_Witness ==
  /\ SuggestReturned /\ Len(SuggestQuery) = 1
  /\ SuggestMatches # {}

\* C12: whatever the store holds and whatever the query is, the list
\* getSearchSuggestions returns holds no string twice and no null or empty
\* title.
C12_SuggestionsDistinct ==
  SuggestReturned =>
    /\ \A i, j \in 1..Len(Suggestions) :
         i # j => Suggestions[i] # Suggestions[j]
    /\ \A i \in 1..Len(Suggestions) :
         Suggestions[i] # NULL /\ Suggestions[i] # <<>>

\* suggestions were returned while two matching chats of the caller hold the
\* same title and the limit leaves room for both
C12_Witness ==
  /\ SuggestReturned /\ Len(Suggestions) >= 1
  /\ Cardinality(SuggestMatches) <= SuggestLimit
  /\ \E c, d \in SuggestMatches : c.id # d.id /\ c.title = d.title

\* the latest update of a matching chat with the title
LastUpdate(title) ==
  CHOOSE t \in { c.updatedAt : c \in { d \in SuggestMatches : d.title = title } } :
    \A c \in SuggestMatches : c.title = title => c.updatedAt <= t

\* C13: getSearchSuggestions returns at most limit strings, each the title
\* of a matching chat of the owner, in the order of their first occurrence
\* when the matching chats are taken most recently updated first: a title
\* comes before every title whose latest update is older, and a matching
\* title left out is no more recent than any title returned.
C13_SuggestionsByRecency ==
  (SuggestReturned /\ Len(SuggestQuery) >= 2) =>
    /\ Len(Suggestions) <= SuggestLimit
    /\ \A i \in 1..Len(Suggestions) :
         \E c \in SuggestMatches : c.title = Suggestions[i]
    /\ SuggestMatches # {} => Len(Suggestions) >= 1
    /\ \A i, j \in 1..Len(Suggestions) :
         i < j => LastUpdate(Suggestions[i]) >= LastUpdate(Suggestions[j])
    /\ \A c \in SuggestMatches :
         (\A i \in 1..Len(Suggestions) : Suggestions[i] # c.title) =>
           \A i \in 1..Len(Suggestions) :
             LastUpdate(c.title) <= LastUpdate(Suggestions[i])

\* two suggestions were returned, the first one the title of two chats, one
\* updated after and one before the chat of the second suggestion
C13_Witness ==
  /\ SuggestReturned /\ Len(Suggestions) = 2
  /\ \E c, d, e \in SuggestMatches :
       /\ c.title = Suggestions[1] /\ e.title = Suggestions[1]
       /\ d.title = Suggestions[2]
       /\ c.updatedAt > d.updatedAt /\ d.updatedAt > e.updatedAt

(* ---------------------------------------------------------------------- *)
(* C14                                                                    *)
(* ---------------------------------------------------------------------- *)
\* the result made from the row
ResultOf(row) == CHOOSE r \in SeqToSet(Results) : r.id = row.id

C15_NoSystemMessages ==
  Returned =>
    \A i \in 1..Len(Results) :
      Results[i].type = "message" =>
        /\ Results[i].metadata.messageRole \in {"user", "assistant"}
        /\ MessageOf(Results[i]).role \in {"user", "assistant"}

\* a message search returned fewer results than its limit while a system
\* message in a chat of the caller contains the query
C15_Witness ==
  /\ Returned /\ CallType \in {"messages", "all"} /\ CallOffset = 0
  /\ Unfiltered(CallFilters)
  /\ \E i \in 1..Len(Results) : Results[i].type = "message"
  /\ Len(Results) < CallLimit
  /\ \E m \in messages : \E c \in chatThreads :
       /\ c.id = m.chatId /\ c.userId = CallFilters.userId
       /\ m.role = "system"
       /\ Contains(ToLowerCase(m.content), SearchTerms(CallQuery))

(* ---------------------------------------------------------------------- *)
(* C16                                                                    *)
(* ---------------------------------------------------------------------- *)
\* the table a direct call of searchChats or searchMessages queries
QueriedTable == IF call.op = "searchChats" THEN "chatThreads" ELSE "messages"

\* C16: if the store fails during searchChats or searchMessages with a
\* non-empty query, the call fails with the store's error; it never
\* completes normally, with an empty or any other result list.
C16_StoreFailurePropagates ==
  ( /\ call.op \in {"searchChats", "searchMessages"}
    /\ ~Blank(call.query)
    /\ QueriedTable \in storeDown ) =>
    /\ response.threw
    /\ response.error = StoreError(QueriedTable)

\* searchMessages was called with a non-empty query while the query on
\* messages fails and a message of the caller matches
C16_Witness ==
  /\ call.op = "searchMessages" /\ ~Blank(call.query)
  /\ "messages" \in storeDown
  /\ response.threw
  /\ storeLog # <<>>
  /\ \E m \in messages : \E c \in chatThreads :
       /\ c.id = m.chatId /\ c.userId = call.filters.userId
       /\ m.role = "user"
       /\ Contains(ToLowerCase(m.content), SearchTerms(call.query))

(* ---------------------------------------------------------------------- *)
(* C17, C18                                                               *)
(* ---------------------------------------------------------------------- *)
\* C17: a search or suggestions request without an authenticated user id is
\* answered 401 Unauthorized, and no core search function is invoked and no
\* store query is issued for it, whatever its parameters are.
C17_UnauthenticatedRejected ==
  ((IsRoute \/ IsSuggestRoute) /\ call.session = NoSession) =>
    /\ response.status = 401
    /\ response.error = "Unauthorized"
    /\ coreLog = <<>>
    /\ storeLog = <<>>

\* a suggestions request without session was answered while its query has
\* two characters and a chat title in the store contains it
C17_Witness ==
  /\ IsSuggestRoute /\ call.session = NoSession
  /\ response.status = 401
  /\ call.params.q # Undefined /\ Len(call.params.q) = 2
  /\ call.params.limit >= 1 /\ call.params.limit <= SuggestLimitMax
  /\ \E c \in chatThreads :
       c.title # NULL /\ Contains(ToLowerCase(c.title), ToLowerCase(call.params.q))

\* the request has no q or an empty one, a type outside the three search
\* types, a limit outside 1..100 or a negative offset
BadParams(p) ==
  \/ p.q = Undefined \/ p.q = <<>>
  \/ p.type \notin {"all", "chats", "messages"}
  \/ p.limit < 1 \/ p.limit > 100
  \/ p.offset < 0

\* C18: an authenticated search request with a missing or empty q, a type
\* outside {all, chats, messages}, a limit outside 1..100 or a negative
\* offset is answered 400 with the rejected fields and invokes no core
\* search function; so the core is only called for a non-empty q, with
\* 1 <= limit <= 100 and offset >= 0.
C18_InvalidParamsRejected ==
  (IsRoute /\ call.session # NoSession) =>
    /\ BadParams(call.params) =>
         /\ response.status = 400
         /\ response.details # {}
         /\ coreLog = <<>>
         /\ storeLog = <<>>
    /\ coreLog # <<>> =>
         /\ ~BadParams(call.params)
         /\ \A i \in 1..Len(storeLog) :
              /\ storeLog[i].limit >= 1 /\ storeLog[i].limit <= 100
              /\ storeLog[i].offset >= 0

\* a request of a signed-in user with a negative offset was answered while
\* a chat of the user matches its query
C18_Witness ==
  /\ IsRoute /\ call.session # NoSession
  /\ call.params.offset < 0
  /\ response.status = 400 /\ response.details = {"offset"}
  /\ \E c \in chatThreads :
       /\ c.userId = call.session /\ c.title # NULL
       /\ Contains(ToLowerCase(c.title), SearchTerms(call.params.q))

(* ---------------------------------------------------------------------- *)
(* C19                                                                    *)
(* ---------------------------------------------------------------------- *)
\* C19: every result returned by a search operation has a score between 0
\* and 100 inclusive.
C19_ScoreInRange ==
  Returned =>
    \A i \in 1..Len(Results) : Results[i].score >= 0 /\ Results[i].score <= 100

\* a combined search returned a chat, a message starting with the query and
\* a message that only contains it
C19_Witness ==
  /\ Returned /\ CallType = "all"
  /\ \E i, j, k \in 1..Len(Results) :
       /\ Results[i].type = "chat" /\ Results[i].score = 100
       /\ Results[j].type = "message" /\ Results[j].score = 90
       /\ Results[k].type = "message" /\ Results[k].score = 50

(* ---------------------------------------------------------------------- *)
(* C20                                                                    *)
(* ---------------------------------------------------------------------- *)
\* C20: getUserDocuments called with an empty user id returns an empty list
\* of documents.
C20_EmptyUserNoDocuments ==
  (call.op = "getUserDocuments" /\ call.userId = "") =>
    response.documents = <<>>

(* ---------------------------------------------------------------------- *)
(* C21                                                                    *)
(* ---------------------------------------------------------------------- *)
\* C21: a combined (type=all) request with limit L asks chat search and
\* message search for ceil(L/2) results at offset 0 each, and returns at most
\* L results, sorted by score, also for odd L where the two sub-searches
\* together yield L + 1 results.
C21_CombinedAtMostLimit ==
  (IsRoute /\ response.status = 200 /\ call.params.type = "all"
     /\ ~Blank(call.params.q)) =>
    LET half == (call.params.limit + 1) \div 2
    IN /\ storeLog = << [table |-> "chatThreads", limit |-> half, offset |-> 0],
                       [table |-> "messages", limit |-> half, offset |-> 0] >>
       /\ Len(Results) <= call.params.limit
       /\ \A i \in 1..(Len(Results) - 1) : Results[i].score >= Results[i + 1].score

\* a combined request with an odd limit L was answered with L results while
\* at least ceil(L/2) chats and ceil(L/2) messages match
C21_Witness ==
  /\ IsRoute /\ response.status = 200 /\ call.params.type = "all"
  /\ call.params.limit % 2 = 1
  /\ Len(Results) = call.params.limit
  /\ LET half == (call.params.limit + 1) \div 2
     IN /\ Cardinality(ChatResultsFor(CallQuery, CallFilters)) >= half
        /\ Cardinality(MessageResultsFor(CallQuery, CallFilters)) >= half

(* ---------------------------------------------------------------------- *)
(* C22                                                                    *)
(* ---------------------------------------------------------------------- *)
\* a direct call of searchChats with a non-empty query returned
ChatCallReturned ==
  call.op = "searchChats" /\ ~response.threw /\ ~Blank(call.query)

\* the row lists the store query of the call can return
StoreRows ==
  ChatQuery(chatThreads, SearchTerms(call.query), call.filters, call.limit,
            call.offset)

\* C22: the fuzzy pass of searchChats only fills out a short result set:
\* when the store returns at least limit matches the fuzzy scorer is not
\* run, and in every case each chat the store matched appears in the output
\* exactly once, with the score the store gave it.
C22_FuzzyNeverOverrides ==
  ChatCallReturned =>
    \E rows \in StoreRows :
      /\ Len(rows) >= call.limit => coreLog = <<"searchChats">>
      /\ \A i \in 1..Len(rows) :
           /\ Cardinality({ k \in 1..Len(Results) : Results[k].id = rows[i].id }) = 1
           /\ \A k \in 1..Len(Results) :
                Results[k].id = rows[i].id => Results[k].score = rows[i].score

\* searchChats was called with limit 2 and the store returned two chats
C22_Witness ==
  /\ ChatCallReturned /\ call.limit = 2
  /\ \E rows \in StoreRows : Len(rows) = 2
  /\ Len(Results) = 2

(* ---------------------------------------------------------------------- *)
(* C23                                                                    *)
(* ---------------------------------------------------------------------- *)
\* a combined search with a non-empty query, by a valid request of a
\* signed-in user or by a direct call of semanticSearch
CombinedSearchRan ==
  \/ /\ IsRoute /\ call.session # NoSession /\ ~BadParams(call.params)
     /\ call.params.type = "all" /\ ~Blank(call.params.q)
  \/ call.op = "semanticSearch" /\ ~Blank(call.query)

\* C23: the combined search is fail-fast: if the chat sub-search or the
\* message sub-search fails, the request is answered with an error and no
\* result list, partial or whole, is returned, whichever sub-search fails
\* and whether or not the other one succeeded.
C23_CombinedFailFast ==
  (CombinedSearchRan /\ storeDown # {}) =>
    /\ "results" \notin DOMAIN response
    /\ IsRoute => response.status = 500 /\ response.error = "Internal server error"
    /\ IsService => response.threw /\ response.error \in { StoreError(t) : t \in storeDown }

\* a combined request was answered while only the message query fails and a
\* chat of the caller matches the query
C23_Witness ==
  /\ CombinedSearchRan /\ IsRoute
  /\ storeDown = {"messages"}
  /\ response.status = 500
  /\ Len(storeLog) = 2
  /\ \E c \in chatThreads :
       /\ c.userId = call.session /\ c.title # NULL
       /\ Contains(ToLowerCase(c.title), SearchTerms(call.params.q))

(* ---------------------------------------------------------------------- *)
(* C24                                                                    *)
(* ---------------------------------------------------------------------- *)
\* a combined request was answered after both sub-searches settled
CombinedFinished ==
  IsRoute /\ response.status = 200 /\ Len(subsearch.order) = 2

\* C24: the chat and message sub-searches of a combined search run with no
\* ordering between them: whichever settles first, the returned list is the
\* sorted merge of the chat list followed by the message list, a list the
\* search returns for this store and these parameters when the order of
\* completion plays no part.
C24_CompletionOrderIrrelevant ==
  CombinedFinished =>
    /\ Results = Slice(SortByScore(subsearch.chats \o subsearch.messages),
                       0, call.params.limit)
    /\ \E out \in RouteSearch(chatThreads, messages, call.params,
                               RouteFilters(call.session, call.params)) :
         Results = out.results

\* the message sub-search settled before the chat sub-search, and results of
\* both kinds were returned, two of them with the same score
C24_Witness ==
  /\ CombinedFinished
  /\ subsearch.order = <<"messages", "chats">>
  /\ \E i, j, k \in 1..Len(Results) :
       /\ i < j
       /\ Results[i].type = "chat" /\ Results[j].type = "chat"
       /\ Results[i].score = Results[j].score
       /\ Results[k].type = "message"

(* ---------------------------------------------------------------------- *)
(* C25                                                                    *)
(* ---------------------------------------------------------------------- *)
\* C25: searchChats and searchMessages pass limit and offset unchanged to the
\* store: a call with a non-empty query issues exactly one store query, whose
\* LIMIT is the call's limit and whose OFFSET is the call's offset.
C25_LimitOffsetPassedOn ==
  (call.op \in {"searchChats", "searchMessages"} /\ ~Blank(call.query)) =>
    storeLog = << [table |-> IF call.op = "searchChats" THEN "chatThreads"
                             ELSE "messages",
                   limit |-> call.limit, offset |-> call.offset] >>

\* searchMessages was called with limit 2 and offset 1 and returned the
\* second of two matching messages
C25_Witness ==
  /\ call.op = "searchMessages" /\ ~response.threw
  /\ call.limit = 2 /\ call.offset = 1
  /\ Len(Results) = 1
  /\ Cardinality(MessageResultsFor(call.query, call.filters)) = 2

(* ---------------------------------------------------------------------- *)
(* The route handlers alone, serving requests without filters             *)
(* ---------------------------------------------------------------------- *)
\* requests of either user, and of nobody, that carry no filter
PlainRequests == { r \in Requests : Unfiltered(r.params) }

NextPlain ==
  \/ \E r \in PlainRequests : GET(r.session, r.params)
  \/ \E r \in PostRequests : POST(r.session, r.params)
  \/ \E r \in SuggestRequests : SuggestionsGET(r.session, r.params)
  \/ Complete

SpecPlain == Init /\ [][NextPlain]_vars

(* ---------------------------------------------------------------------- *)
(* C26                                                                    *)
(* ---------------------------------------------------------------------- *)
\* the chats of a user, and the messages in them
ChatsOf(user) == { c \in chatThreads : c.userId = user }
MessagesOf(user) == { m \in messages : \E c \in ChatsOf(user) : c.id = m.chatId }

\* a request of a signed-in user was answered with results or suggestions
AnsweredForUser ==
  (IsRoute \/ IsSuggestRoute) /\ call.session # NoSession /\ response.status = 200

\* C26: owner isolation: every chat result, every message result (through
\* its chat) and every suggestion returned for a request belongs to the
\* signed-in user, and the response is one the same request gets from the
\* store with the chats and messages of all other users removed.
C26_OwnerIsolation ==
  AnsweredForUser =>
    /\ IsRoute =>
         /\ \A i \in 1..Len(Results) :
              /\ Results[i].type = "chat" =>
                   \E c \in ChatsOf(call.session) : c.id = Results[i].id
              /\ Results[i].type = "message" =>
                   \E m \in MessagesOf(call.session) : m.id = Results[i].id
         /\ \E out \in Handle(ChatsOf(call.session), MessagesOf(call.session),
                               call.session, call.params, storeDown) :
              out.response = response
    /\ IsSuggestRoute =>
         /\ \A i \in 1..Len(response.suggestions) :
              \E c \in ChatsOf(call.session) : c.title = response.suggestions[i]
         /\ \E out \in HandleSuggestions(ChatsOf(call.session), call.session,
                                          call.params, storeDown) :
              out.response = response

\* a combined search of one user returned a chat and a message while another
\* user has a chat and a message that match the query
C26_Witness ==
  /\ IsRoute /\ AnsweredForUser /\ call.params.type = "all"
  /\ \E i, j \in 1..Len(Results) :
       Results[i].type = "chat" /\ Results[j].type = "message"
  /\ \E c \in chatThreads :
       /\ c.userId # call.session /\ c.title # NULL
       /\ Contains(ToLowerCase(c.title), SearchTerms(call.params.q))
       /\ \E m \in messages :
            /\ m.chatId = c.id
            /\ Contains(ToLowerCase(m.content), SearchTerms(call.params.q))

(* ---------------------------------------------------------------------- *)
(* C27                                                                    *)
(* ---------------------------------------------------------------------- *)
\* C27: the list searchChats returns holds exactly the chats the store query
\* returned, each once: no two results share an id, every result's title
\* contains the query, every score is the one the store assigned, and there
\* are at most limit results.
C27_ExactlyTheStoreRows ==
  ChatCallReturned =>
    /\ \E rows \in StoreRows :
         /\ Len(Results) = Len(rows)
         /\ \A i \in 1..Len(rows) :
              \E k \in 1..Len(Results) :
                Results[k].id = rows[i].id /\ Results[k].score = rows[i].score
    /\ \A i, j \in 1..Len(Results) : i # j => Results[i].id # Results[j].id
    /\ \A i \in 1..Len(Results) :
         Contains(ToLowerCase(Results[i].title), SearchTerms(call.query))
    /\ Len(Results) <= call.limit

(* ---------------------------------------------------------------------- *)
(* C28                                                                    *)
(* ---------------------------------------------------------------------- *)
\* the result lists a combined request with these parameters gets at offset 0
FirstPages(session, p) ==
  { Slice(SortByScore(c.results \o m.results), 0, p.limit) :
      c \in searchChats(chatThreads, p.q, RouteFilters(session, p),
                        (p.limit + 1) \div 2, 0),
      m \in searchMessages(chatThreads, messages, p.q, RouteFilters(session, p),
                           (p.limit + 1) \div 2, 0) }

\* C28: for type=all the handler ignores the offset: the result list is one
\* the same request gets with offset 0, both store queries are issued at
\* offset 0, and so no request reaches past the first limit results of a
\* combined search.
C28_CombinedIgnoresOffset ==
  (IsRoute /\ response.status = 200 /\ call.params.type = "all") =>
    /\ Results \in FirstPages(call.session, call.params)
    /\ \A i \in 1..Len(storeLog) : storeLog[i].offset = 0

\* a combined request with offset 1 was answered with results
C28_Witness ==
  /\ IsRoute /\ response.status = 200 /\ call.params.type = "all"
  /\ call.params.offset = 1
  /\ Len(Results) >= 2

(* ---------------------------------------------------------------------- *)
(* The SearchInterface component against the search route                 *)
(* ---------------------------------------------------------------------- *)
\* limit: "20" of performSearch, scaled to the stores modelled
ClientLimit == 2

\* searches and loadMore calls a run of the component makes
MaxRequests == 3

\* what the user types into the search box
ClientQueries == { <<>>, <<" ">>, <<"A", "b">> }

\* the user the component's requests are authenticated as
ClientUser == "u1"

\* new URLSearchParams({q, type, limit: "20", offset})
ClientParams(req) == Params(req.q, req.type, ClientLimit, req.offset, NoFilter)

\* the data a response to the request carries, or that it was not ok
Answer(req, out) ==
  IF out.response.status = 200
  THEN [status |-> 200, results |-> out.response.results,
        hasMore |-> out.response.hasMore, offset |-> req.offset,
        append |-> req.append]
  ELSE [status |-> out.response.status, results |-> <<>>, hasMore |-> FALSE,
        offset |-> req.offset, append |-> req.append]

InitClient ==
  /\ \E st \in Stores : chatThreads = st.chatThreads /\ messages = st.messages
  /\ storeDown \in {{}, {"messages"}}
  /\ call = NoCall
  /\ response = NoResponse
  /\ coreLog = <<>>
  /\ storeLog = <<>>
  /\ subsearch = NoSubsearch
  /\ client = NoClient
  /\ inflight = {}

\* the query (debounced) or the type filter changes and the effect runs
\* performSearch(debouncedQuery, filters, 0, false)
ChangeSearch(q, type) ==
  /\ client.issued < MaxRequests
  /\ <<q, type>> # <<client.query, client.type>>
  /\ LET seq == client.issued + 1
         moved == [client EXCEPT !.query = q, !.type = type, !.issued = seq,
                                 !.latest = [status |-> 0],
                                 !.offset = IF type # client.type THEN 0 ELSE @]
     IN IF Trim(q) = <<>>
        THEN /\ client' = [moved EXCEPT !.results = <<>>, !.hasMore = FALSE]
             /\ inflight' = inflight
        ELSE /\ client' = [moved EXCEPT !.isLoading = TRUE]
             /\ inflight' = inflight \cup
                  {[seq |-> seq, q |-> q, type |-> type, offset |-> 0,
                    append |-> FALSE]}
  /\ UNCHANGED <<chatThreads, messages, storeDown, call, response, coreLog,
                 storeLog, subsearch>>

\* loadMore: performSearch(debouncedQuery, filters, offset, true)
LoadMore ==
  /\ client.issued < MaxRequests
  /\ client.hasMore /\ ~client.isLoading /\ client.query # <<>>
  /\ Trim(client.query) # <<>>
  /\ LET seq == client.issued + 1
     IN /\ client' = [client EXCEPT !.issued = seq, !.latest = [status |-> 0],
                                    !.isLoading = TRUE]
        /\ inflight' = inflight \cup
             {[seq |-> seq, q |-> client.query, type |-> client.type,
               offset |-> client.offset, append |-> TRUE]}
  /\ UNCHANGED <<chatThreads, messages, storeDown, call, response, coreLog,
                 storeLog, subsearch>>

\* the fetch of a request resolves and performSearch runs to its end
Receive ==
  \E req \in inflight :
    /\ \E out \in Handle(chatThreads, messages, ClientUser, ClientParams(req),
                         storeDown) :
         LET data == Answer(req, out)
             shown == IF data.status = 200
                      THEN [client EXCEPT
                              !.results = IF req.append THEN @ \o data.results
                                          ELSE data.results,
                              !.hasMore = data.hasMore,
                              !.offset = req.offset + Len(data.results)]
                      ELSE [client EXCEPT !.results = <<>>, !.hasMore = FALSE]
         IN client' = [shown EXCEPT
                         !.isLoading = FALSE,
                         !.latest = IF req.seq = client.issued THEN data ELSE @]
    /\ inflight' = inflight \ {req}
    /\ UNCHANGED <<chatThreads, messages, storeDown, call, response, coreLog,
                   storeLog, subsearch>>

NextClient ==
  \/ \E q \in ClientQueries, type \in SearchTypes : ChangeSearch(q, type)
  \/ LoadMore
  \/ Receive

SpecClient == InitClient /\ [][NextClient]_vars

(* ---------------------------------------------------------------------- *)
(* C29                                                                    *)
(* ---------------------------------------------------------------------- *)
\* C29: whatever searches and loadMore calls were made, the list of results
\* the component has accumulated never holds the same result id twice.
C29_NoDuplicateResults ==
  \A i, j \in 1..Len(client.results) :
    i # j => client.results[i].id # client.results[j].id

(* ---------------------------------------------------------------------- *)
(* C30                                                                    *)
(* ---------------------------------------------------------------------- *)
\* every request sent was answered, the last one with results
AllArrived == inflight = {} /\ client.latest.status = 200

\* C30: once every response has arrived, hasMore and offset are those of the
\* request issued last, and the results are its results (as the tail of the
\* list when it was a loadMore): a late response of an older request never
\* replaces them and is never appended to them.
C30_LatestRequestWins ==
  AllArrived =>
    LET last == client.latest
        n == Len(client.results)
        k == Len(last.results)
    IN /\ client.hasMore = last.hasMore
       /\ client.offset = last.offset + k
       /\ k <= n
       /\ SubSeq(client.results, n - k + 1, n) = last.results
       /\ ~last.append => n = k
====
